---- MODULE Spec2Model ----
(***************************************************************************)
(* Model of the quantum seed cache of src/src/quantum_cache.c: the global  *)
(* singleton, its lifecycle (quantum_cache_init / quantum_cache_destroy),  *)
(* bulk population (quantum_cache_preload), point lookup                   *)
(* (quantum_cache_get_random) and phase derivation                         *)
(* (compute_quantum_phase).                                                *)
(*                                                                         *)
(* 64-bit unsigned values are tuples of 8 bytes, little-endian (limb i,    *)
(* at position i + 1, has weight 256^i), because the model checker's       *)
(* integers are 32 bits wide; every arithmetic step wraps modulo 2^64 as   *)
(* uint64_t does.                                                          *)
(***************************************************************************)
EXTENDS Integers, Naturals, Sequences, FiniteSets, TLC

(***************************************************************************)
(* Bounds of the model.                                                    *)
(***************************************************************************)
\* largest cache_size / count for which the model lets an allocation succeed
MaxCap == 2
\* number of heap addresses malloc can hand out for struct quantum_cache
MaxAddr == 2
\* number of threads calling into the module at the same time
NThreads == 2

(***************************************************************************)
(* Program constants.                                                      *)
(***************************************************************************)
\* upper limit of cache_size and count (quantum_cache.c:49, :124)
MAX_CACHE_SIZE == 10000000

\* the null pointer; heap addresses are 1..MaxAddr
NULL == 0

(***************************************************************************)
(* uint64_t arithmetic on 8 little-endian byte limbs.                      *)
(***************************************************************************)
Limbs == 0..7

\* the 8-limb value whose limb i is F(i)
Tup8(F(_)) == <<F(0), F(1), F(2), F(3), F(4), F(5), F(6), F(7)>>
\* limb i of a
L(a, i) == a[i + 1]

RECURSIVE Pow2(_)
Pow2(n) == IF n = 0 THEN 1 ELSE 2 * Pow2(n - 1)

\* a value below 2^31 widened to uint64_t
U64(n) == Tup8(LAMBDA i : IF i < 4 THEN (n \div Pow2(8 * i)) % 256 ELSE 0)

UINT64_MAX == Tup8(LAMBDA i : 255)

RECURSIVE XorByte(_, _)
XorByte(a, b) ==
    IF a = 0 THEN b
    ELSE IF b = 0 THEN a
    ELSE ((a + b) % 2) + 2 * XorByte(a \div 2, b \div 2)

RECURSIVE OrByte(_, _)
OrByte(a, b) ==
    IF a = 0 THEN b
    ELSE IF b = 0 THEN a
    ELSE (IF a % 2 = 1 \/ b % 2 = 1 THEN 1 ELSE 0) + 2 * OrByte(a \div 2, b \div 2)

RECURSIVE AndByte(_, _)
AndByte(a, b) ==
    IF a = 0 \/ b = 0 THEN 0
    ELSE (IF a % 2 = 1 /\ b % 2 = 1 THEN 1 ELSE 0) + 2 * AndByte(a \div 2, b \div 2)

\* a ^ b
Xor64(a, b) == Tup8(LAMBDA i : XorByte(L(a, i), L(b, i)))
\* a | b
Or64(a, b) == Tup8(LAMBDA i : OrByte(L(a, i), L(b, i)))
\* a & b
And64(a, b) == Tup8(LAMBDA i : AndByte(L(a, i), L(b, i)))
\* a << bits and a >> bits, for the shift counts the program uses (8 and 32)
Shl64(a, bits) == Tup8(LAMBDA i : IF i >= (bits \div 8) THEN L(a, i - (bits \div 8)) ELSE 0)
Shr64(a, bits) == Tup8(LAMBDA i : IF i + (bits \div 8) <= 7 THEN L(a, i + (bits \div 8)) ELSE 0)

\* column k of the schoolbook product of a and b
RECURSIVE MulColumn(_, _, _, _)
MulColumn(a, b, k, i) ==
    IF i > k THEN 0 ELSE (L(a, i) * L(b, k - i)) + MulColumn(a, b, k, i + 1)

\* carry entering limb k of a * b
RECURSIVE MulCarry(_, _, _)
MulCarry(a, b, k) ==
    IF k = 0 THEN 0
    ELSE (MulColumn(a, b, k - 1, 0) + MulCarry(a, b, k - 1)) \div 256

\* a * b modulo 2^64
Mul64(a, b) == Tup8(LAMBDA k : (MulColumn(a, b, k, 0) + MulCarry(a, b, k)) % 256)

\* carry entering limb k of a + b
RECURSIVE AddCarry(_, _, _)
AddCarry(a, b, k) ==
    IF k = 0 THEN 0
    ELSE (L(a, k - 1) + L(b, k - 1) + AddCarry(a, b, k - 1)) \div 256

\* a + b modulo 2^64
Add64(a, b) == Tup8(LAMBDA k : (L(a, k) + L(b, k) + AddCarry(a, b, k)) % 256)

\* a % m for 1 <= m <= MAX_CACHE_SIZE + 1, most significant limb first
RECURSIVE ModFrom(_, _, _)
ModFrom(a, m, i) ==
    IF i > 7 THEN 0
    ELSE LET r  == ModFrom(a, m, i + 1)
             r1 == ((r * 16) + (L(a, i) \div 16)) % m
         IN  ((r1 * 16) + (L(a, i) % 16)) % m

Mod64(a, m) == ModFrom(a, m, 0)

(***************************************************************************)
(* double values.  Every double the lookup path produces is n / 2^64 with  *)
(* 0 <= n <= 2^64; it is kept as the numerator n on 9 limbs.               *)
(* A phase is fl(2 * (n / 2^64) * M_PI): the factor 2.0 is exact, so the   *)
(* phase is kept as the same numerator under the unit "2pi".               *)
(***************************************************************************)
Tup9(F(_)) == <<F(0), F(1), F(2), F(3), F(4), F(5), F(6), F(7), F(8)>>

\* bit j (0 = least significant) of a
Bit64(a, j) == (L(a, j \div 8) \div Pow2(j % 8)) % 2

\* index of the most significant set bit of a, -1 when a = 0
RECURSIVE MsbFrom(_, _)
MsbFrom(a, j) == IF j < 0 THEN -1 ELSE IF Bit64(a, j) = 1 THEN j ELSE MsbFrom(a, j - 1)

\* limb k of the 16-bit value inc
IncLimb(inc, k) == IF k = 0 THEN inc % 256 ELSE IF k = 1 THEN inc \div 256 ELSE 0

\* carry entering limb k when inc (at most 2^11) is added to a
RECURSIVE IncCarry(_, _, _)
IncCarry(a, inc, k) ==
    IF k = 0 THEN 0
    ELSE (L(a, k - 1) + IncLimb(inc, k - 1) + IncCarry(a, inc, k - 1)) \div 256

\* ToDouble that drops the bits beyond the 53-bit significand (rounds toward
\* zero)
ToDouble_Truncating(a) ==
    LET msb  == MsbFrom(a, 63)
        drop == IF msb > 52 THEN msb - 52 ELSE 0
        low  == (L(a, 0) + (256 * L(a, 1))) % Pow2(drop)
    IN  Tup9(LAMBDA k : IF k = 0 THEN L(a, 0) - (low % 256)
                        ELSE IF k = 1 THEN L(a, 1) - (low \div 256)
                        ELSE IF k = 8 THEN 0
                        ELSE L(a, k))

\* (double)a for a uint64_t a: round to nearest, ties to even, 53-bit
\* significand; the result is an integer of at most 65 bits
ToDouble(a) ==
    LET msb  == MsbFrom(a, 63)
        drop == IF msb > 52 THEN msb - 52 ELSE 0
        low  == (L(a, 0) + (256 * L(a, 1))) % Pow2(drop)
        half == IF drop = 0 THEN 0 ELSE Pow2(drop - 1)
        up   == drop > 0 /\ (low > half \/ (low = half /\ Bit64(a, drop) = 1))
        cut  == Tup8(LAMBDA i : IF i = 0 THEN L(a, 0) - (low % 256)
                                ELSE IF i = 1 THEN L(a, 1) - (low \div 256)
                                ELSE L(a, i))
        inc  == IF up THEN Pow2(drop) ELSE 0
    IN  Tup9(LAMBDA k : IF k = 8 THEN IncCarry(cut, inc, 8)
                        ELSE (L(cut, k) + IncLimb(inc, k) + IncCarry(cut, inc, k)) % 256)

\* the numerator of 0.0
ZeroNum == Tup9(LAMBDA k : 0)
\* the numerator of 1.0, which is also the integer 2^64
OneNum == Tup9(LAMBDA k : IF k = 8 THEN 1 ELSE 0)

\* x / d for doubles x (an integer of at most 65 bits) and d: the only
\* divisor the program uses is (double)UINT64_MAX; when that is 2^64 the
\* quotient x / 2^64 is exact and is kept as the numerator x
DivDouble(x, d) == [unit |-> "1", num |-> IF d = OneNum THEN x ELSE ZeroNum]

\* the literal 0.5
Half == [unit |-> "1", num |-> Tup9(LAMBDA k : IF k = 7 THEN 128 ELSE 0)]

\* v * 2.0 * M_PI
TimesTwoPi(v) == [unit |-> "2pi", num |-> v.num]
\* the literal M_PI, which is 0.5 * 2.0 * M_PI exactly
M_PI == TimesTwoPi(Half)

\* x < y on numerators
RECURSIVE NumLessFrom(_, _, _)
NumLessFrom(x, y, k) ==
    IF k < 0 THEN FALSE
    ELSE IF L(x, k) # L(y, k) THEN L(x, k) < L(y, k)
    ELSE NumLessFrom(x, y, k - 1)

NumLess(x, y) == NumLessFrom(x, y, 8)

(***************************************************************************)
(* Inputs the model draws from.                                            *)
(***************************************************************************)
\* const char *api_key: a null pointer, or a NUL-terminated string given as
\* its bytes (each 1..255) in order
NULL_KEY == [isNull |-> TRUE, str |-> <<>>]
Str(bytes) == [isNull |-> FALSE, str |-> bytes]

\* "", an 8-byte key, and a 9-byte key with the same last 8 bytes
EmptyKey == Str(<<>>)
Key8 == Str(<<9, 186, 147, 109, 187, 40, 5, 144>>)
Key9 == Str(<<77>> \o Key8.str)
Keys == {NULL_KEY, EmptyKey, Key8, Key9}

\* cache_size, count and index arguments (size_t)
Sizes == (0..MaxCap) \cup {MAX_CACHE_SIZE + 1}
Indexes == 0..(MaxCap + 1)

\* readings of CLOCK_MONOTONIC, in the order the clock passes through them
ClockSamples == << [tv_sec |-> 3, tv_nsec |-> 7], [tv_sec |-> 3, tv_nsec |-> 9] >>
Clock == 1..Len(ClockSamples)

\* values drand48() returns: k / 2^48, given as the 48-bit integer k
DrandSamples == { <<0, 0, 0, 0, 0, 0>>, <<255, 255, 255, 255, 255, 255>> }

\* circuit_id and packet_hash arguments
Ids == { U64(0), U64(1), Add64(Shl64(U64(2), 32), U64(5)) }

Addrs == 1..MaxAddr

Threads == 1..NThreads

(***************************************************************************)
(* State.                                                                  *)
(***************************************************************************)
VARIABLES
    global_cache,   \* static struct quantum_cache *global_cache
    quantum_cache,  \* the fields of *global_cache (seeds, size, index)
    allocCache,     \* addresses of struct quantum_cache blocks malloc'ed and not freed
    allocSeeds,     \* addresses of the structs whose seeds array is malloc'ed and not freed
    rwlocks,        \* addresses of the structs whose lock is initialised and not destroyed
    now,            \* position of CLOCK_MONOTONIC in ClockSamples
    last,           \* the last call: its arguments, its result and the
                    \* library calls it made, in order
    heap,           \* with threads: the struct quantum_cache at each address
    seedmem,        \* with threads: the seeds array at each address
    pc,             \* with threads: the statement each thread is at
    loc             \* with threads: each thread's arguments and locals

vars == <<global_cache, quantum_cache, allocCache, allocSeeds, rwlocks, now, last,
          heap, seedmem, pc, loc>>

\* the variables only the specifications with threads use
threadVars == <<heap, seedmem, pc, loc>>

\* the part of the state the program itself holds
progState == <<global_cache, quantum_cache, allocCache, allocSeeds, rwlocks>>

\* *global_cache when global_cache is NULL: nothing to read
NoCache == [seeds |-> <<>>, size |-> 0, index |-> 0]

NoCall == [op |-> "none", key |-> NULL_KEY, n |-> 0, a |-> U64(0), b |-> U64(0),
           ret |-> 0, value |-> [unit |-> "none", num |-> ZeroNum],
           events |-> <<>>]

\* an object whose value is indeterminate (malloc'ed and not yet assigned),
\* and an object holding x
Indet == <<>>
Val(x) == <<x>>

\* the memory of a struct quantum_cache that is not allocated, or that
\* malloc has just returned: seeds, size and index are indeterminate and
\* the lock is not initialised.  readers and writer are the threads holding
\* the lock (writer 0: none).
JunkBlock == [seeds |-> Indet, size |-> Indet, index |-> Indet,
              readers |-> {}, writer |-> 0]

\* a thread's arguments and locals: op, the function it called; key, n, a,
\* b, its arguments (n: cache_size, count or index); ptr, the value of
\* global_cache it holds in a register, if any; i, the loop counter; seed,
\* the seed it read; ret and value, what it returned; fault, the undefined
\* behaviour it ran into
NoLoc == [op |-> "none", key |-> NULL_KEY, n |-> 0, a |-> U64(0), b |-> U64(0),
          ptr |-> Indet, i |-> 0, seed |-> Indet, ret |-> 0,
          value |-> [unit |-> "none", num |-> ZeroNum], fault |-> "none"]

\* a single-threaded client: there is no thread state
NoThreads ==
    /\ heap = <<>>
    /\ seedmem = <<>>
    /\ pc = <<>>
    /\ loc = <<>>

Init ==
    /\ global_cache = NULL
    /\ quantum_cache = NoCache
    /\ allocCache = {}
    /\ allocSeeds = {}
    /\ rwlocks = {}
    /\ now = 1
    /\ last = NoCall
    /\ NoThreads

\* the program's state as one value, so that one function can call another
State == [global_cache |-> global_cache, quantum_cache |-> quantum_cache,
          allocCache |-> allocCache, allocSeeds |-> allocSeeds, rwlocks |-> rwlocks]

(***************************************************************************)
(* quantum_cache_init                                                      *)
(***************************************************************************)
\* InvalidSize without the test for zero
InvalidSize_NoZeroTest(cache_size) == cache_size > MAX_CACHE_SIZE

\* if (cache_size == 0 || cache_size > 10000000)
InvalidSize(cache_size) == cache_size = 0 \/ cache_size > MAX_CACHE_SIZE

\* (uint64_t)(drand48() * UINT64_MAX) for drand48() = k / 2^48: UINT64_MAX
\* converts to the double 2^64, the product k * 2^16 is exact
DrandSeed(k) == Tup8(LAMBDA i : IF i >= 2 THEN k[i - 1] ELSE 0)

\* the struct after a successful initialisation: malloc'ed seeds array of
\* cache_size slots, size, index, and every slot written by the fill loop
NewCache(cache_size, rnd) ==
    [seeds |-> [i \in 0..(cache_size - 1) |-> DrandSeed(rnd[i])],
     size  |-> cache_size,
     index |-> 0]

\* p: what malloc(sizeof(struct quantum_cache)) returns; seedsOk: whether the
\* malloc of the seeds array succeeds; lockOk: whether pthread_rwlock_init
\* returns 0; rnd: the drand48() values of the fill loop
quantum_cache_init(st, cache_size, p, seedsOk, lockOk, rnd) ==
    IF InvalidSize(cache_size) THEN
        [st |-> st, ret |-> -1, events |-> <<>>]
    ELSE IF p = NULL THEN
        \* global_cache = malloc(...) has stored the null pointer
        [st |-> [st EXCEPT !.global_cache = NULL, !.quantum_cache = NoCache],
         ret |-> -2, events |-> <<"malloc">>]
    ELSE IF ~seedsOk THEN
        [st |-> [st EXCEPT !.global_cache = NULL, !.quantum_cache = NoCache],
         ret |-> -2, events |-> <<"malloc", "malloc", "free">>]
    ELSE IF ~lockOk THEN
        [st |-> [st EXCEPT !.global_cache = NULL, !.quantum_cache = NoCache],
         ret |-> -3, events |-> <<"malloc", "malloc", "rwlock_init", "free", "free">>]
    ELSE
        [st |-> [global_cache  |-> p,
                 quantum_cache |-> NewCache(cache_size, rnd),
                 allocCache    |-> st.allocCache \cup {p},
                 allocSeeds    |-> st.allocSeeds \cup {p},
                 rwlocks       |-> st.rwlocks \cup {p}],
         ret |-> 0, events |-> <<"malloc", "malloc", "rwlock_init">>]

(***************************************************************************)
(* quantum_cache_destroy                                                   *)
(***************************************************************************)
\* quantum_cache_destroy without free(global_cache->seeds)
quantum_cache_destroy_KeepsSeeds(st) ==
    IF st.global_cache = NULL THEN
        [st |-> st, ret |-> 0, events |-> <<>>]
    ELSE
        [st |-> [global_cache  |-> NULL,
                 quantum_cache |-> NoCache,
                 allocCache    |-> st.allocCache \ {st.global_cache},
                 allocSeeds    |-> st.allocSeeds,
                 rwlocks       |-> st.rwlocks \ {st.global_cache}],
         ret |-> 0, events |-> <<"rwlock_destroy", "free">>]

quantum_cache_destroy(st) ==
    IF st.global_cache = NULL THEN
        [st |-> st, ret |-> 0, events |-> <<>>]
    ELSE
        [st |-> [global_cache  |-> NULL,
                 quantum_cache |-> NoCache,
                 allocCache    |-> st.allocCache \ {st.global_cache},
                 allocSeeds    |-> st.allocSeeds \ {st.global_cache},
                 rwlocks       |-> st.rwlocks \ {st.global_cache}],
         ret |-> 0, events |-> <<"rwlock_destroy", "free", "free">>]

(***************************************************************************)
(* quantum_cache_preload                                                   *)
(***************************************************************************)
\* if (!api_key || count == 0 || count > 10000000)
InvalidParams(api_key, count) ==
    api_key.isNull \/ count = 0 \/ count > MAX_CACHE_SIZE

\* seed_mix after the first n bytes of the key:
\* seed_mix = (seed_mix << 8) | (uint8_t)api_key[i]
RECURSIVE FoldKey(_, _)
FoldKey(str, n) ==
    IF n = 0 THEN U64(0)
    ELSE CHOOSE seed_mix \in {Or64(Shl64(prev, 8), U64(str[n])) :
                                 prev \in {FoldKey(str, n - 1)}} : TRUE

LCG1_MUL == 1103515245
LCG1_ADD == 12345
LCG2_MUL == 1664525
LCG2_ADD == 1013904223

\* MixEntropy without the fold of the high half into the low half
MixEntropy_NoFold(ts, i, seed_mix) ==
    LET e0 == Xor64(Xor64(Xor64(U64(ts.tv_nsec), U64(ts.tv_sec)), U64(i)), seed_mix)
        e1 == And64(Add64(Mul64(e0, U64(LCG1_MUL)), U64(LCG1_ADD)), UINT64_MAX)
    IN  And64(Add64(Mul64(e1, U64(LCG2_MUL)), U64(LCG2_ADD)), UINT64_MAX)

\* the value stored in seeds[i] for the clock reading ts
MixEntropy(ts, i, seed_mix) ==
    LET e0 == Xor64(Xor64(Xor64(U64(ts.tv_nsec), U64(ts.tv_sec)), U64(i)), seed_mix)
        e1 == And64(Add64(Mul64(e0, U64(LCG1_MUL)), U64(LCG1_ADD)), UINT64_MAX)
        e2 == Xor64(e1, Shr64(e1, 32))
    IN  And64(Add64(Mul64(e2, U64(LCG2_MUL)), U64(LCG2_ADD)), UINT64_MAX)

\* MixEntropy for every key, clock reading and index of the model, computed
\* once: <<key, position in ClockSamples, i, value>>
MixTable ==
    {<<k, c, i, MixEntropy(ClockSamples[c], i, FoldKey(k.str, Len(k.str)))>> :
        k \in Keys \ {NULL_KEY}, c \in Clock, i \in 0..MaxCap}

MixedSeed(api_key, c, i) ==
    IF \E t \in MixTable : t[1] = api_key /\ t[2] = c /\ t[3] = i
    THEN (CHOOSE t \in MixTable : t[1] = api_key /\ t[2] = c /\ t[3] = i)[4]
    ELSE MixEntropy(ClockSamples[c], i, FoldKey(api_key.str, Len(api_key.str)))

\* a loop that stops one entry early
Rewritten_StopsEarly(count, size) == {i \in 0..(size - 1) : i + 1 < count}

\* for (i = 0; i < count && i < global_cache->size; i++): the i it runs for
Rewritten(count, size) == {i \in 0..(size - 1) : i < count}

\* Populate that also records the number of rewritten entries as the size
Populate_SetsSize(c, api_key, count, ts) ==
    [c EXCEPT !.seeds = [i \in DOMAIN c.seeds |->
                            IF i \in Rewritten(count, c.size)
                            THEN MixedSeed(api_key, ts[i], i)
                            ELSE c.seeds[i]],
              !.size = Cardinality(Rewritten(count, c.size))]

\* Populate that rewrites every entry of the array, whatever the count
Populate_WholeArray(c, api_key, count, ts) ==
    [c EXCEPT !.seeds = [i \in DOMAIN c.seeds |-> MixedSeed(api_key, ts[0], i)]]

\* the struct after the write pass made under the write lock; ts[i] is the
\* position in ClockSamples of the clock reading of iteration i
Populate(c, api_key, count, ts) ==
    [c EXCEPT !.seeds = [i \in DOMAIN c.seeds |->
                            IF i \in Rewritten(count, c.size)
                            THEN MixedSeed(api_key, ts[i], i)
                            ELSE c.seeds[i]]]

quantum_cache_preload(st, api_key, count, p, seedsOk, lockOk, rnd, ts) ==
    IF InvalidParams(api_key, count) THEN
        [st |-> st, ret |-> -1, events |-> <<>>]
    ELSE
        LET r == IF st.global_cache = NULL
                 THEN quantum_cache_init(st, count, p, seedsOk, lockOk, rnd)
                 ELSE [st |-> st, ret |-> 0, events |-> <<>>]
        IN  IF r.ret # 0 THEN r
            ELSE [st |-> [r.st EXCEPT !.quantum_cache =
                              Populate(r.st.quantum_cache, api_key, count, ts)],
                  ret |-> 0,
                  events |-> r.events \o <<"wrlock", "unlock">>]

(***************************************************************************)
(* quantum_cache_get_random                                                *)
(***************************************************************************)
\* if (!global_cache || index >= global_cache->size)
LookupFallback(st, index) ==
    st.global_cache = NULL \/ index >= st.quantum_cache.size

\* (double)seed / UINT64_MAX
SeedValue(seed) == DivDouble(ToDouble(seed), ToDouble(UINT64_MAX))

\* SeedValue for every seed the model's inputs can store, computed once:
\* <<seed, value>>
SeedValueTable ==
    {<<x, SeedValue(x)>> :
        x \in {DrandSeed(k) : k \in DrandSamples} \cup {t[4] : t \in MixTable}}

SeedValueOf(seed) ==
    IF \E t \in SeedValueTable : t[1] = seed
    THEN (CHOOSE t \in SeedValueTable : t[1] = seed)[2]
    ELSE SeedValue(seed)

\* quantum_cache_get_random that consumes the entry: it advances the cursor
quantum_cache_get_random_Consuming(st, index) ==
    IF LookupFallback(st, index) THEN
        [st |-> st, value |-> Half, events |-> <<>>]
    ELSE
        [st |-> [st EXCEPT !.quantum_cache.index = 1 - @],
         value |-> SeedValueOf(st.quantum_cache.seeds[index]),
         events |-> <<"rdlock", "unlock">>]

\* quantum_cache_get_random with 0.0 as the fallback value
quantum_cache_get_random_ZeroFallback(st, index) ==
    IF LookupFallback(st, index) THEN
        [st |-> st, value |-> [unit |-> "1", num |-> ZeroNum], events |-> <<>>]
    ELSE
        [st |-> st, value |-> SeedValueOf(st.quantum_cache.seeds[index]),
         events |-> <<"rdlock", "unlock">>]

quantum_cache_get_random(st, index) ==
    IF LookupFallback(st, index) THEN
        [st |-> st, value |-> Half, events |-> <<>>]
    ELSE
        [st |-> st, value |-> SeedValueOf(st.quantum_cache.seeds[index]),
         events |-> <<"rdlock", "unlock">>]

(***************************************************************************)
(* compute_quantum_phase                                                   *)
(***************************************************************************)
\* Combined without the rotation
Combined_NoRotation(circuit_id, packet_hash) == Xor64(circuit_id, packet_hash)

\* combined = circuit_id ^ packet_hash;
\* combined = (combined << 32) | (combined >> 32);
Combined(circuit_id, packet_hash) ==
    LET combined == Xor64(circuit_id, packet_hash)
    IN  Or64(Shl64(combined, 32), Shr64(combined, 32))

\* index = combined % global_cache->size
PhaseIndex(circuit_id, packet_hash, size) ==
    Mod64(Combined(circuit_id, packet_hash), size)

\* compute_quantum_phase that goes through the lookup when the cache is absent
\* without scaling its fallback
compute_quantum_phase_UnscaledFallback(st, circuit_id, packet_hash) ==
    IF st.global_cache = NULL THEN
        [st |-> st, value |-> [unit |-> "2pi", num |-> OneNum], events |-> <<>>]
    ELSE
        LET index == PhaseIndex(circuit_id, packet_hash, st.quantum_cache.size)
            g     == quantum_cache_get_random(st, index)
        IN  [st |-> g.st, value |-> TimesTwoPi(g.value),
             events |-> <<"mod">> \o g.events]

compute_quantum_phase(st, circuit_id, packet_hash) ==
    IF st.global_cache = NULL THEN
        [st |-> st, value |-> M_PI, events |-> <<>>]
    ELSE
        LET index == PhaseIndex(circuit_id, packet_hash, st.quantum_cache.size)
            g     == quantum_cache_get_random(st, index)
        IN  [st |-> g.st, value |-> TimesTwoPi(g.value),
             events |-> <<"mod">> \o g.events]

(***************************************************************************)
(* The calls a single-threaded client makes, one action per call.          *)
(***************************************************************************)
\* what the environment answers to one quantum_cache_init call: p, what
\* malloc(sizeof(struct quantum_cache)) returns; seedsOk, whether the malloc
\* of the seeds array succeeds; lockOk, whether pthread_rwlock_init returns
\* 0; rnd, the drand48() values of the fill loop.  An answer that the call
\* never asks for is left at its default.
NoEnv == [p |-> NULL, seedsOk |-> FALSE, lockOk |-> FALSE, rnd |-> <<>>]

\* what malloc can return when the addresses in use are taken: a null
\* pointer or a free address (the lowest: which one makes no difference)
Malloc(taken) ==
    {NULL} \cup {p \in Addrs \ taken : \A q \in Addrs \ taken : p <= q}

InitEnvs(cache_size) ==
    IF InvalidSize(cache_size) THEN {NoEnv}
    ELSE {NoEnv}
         \cup {[NoEnv EXCEPT !.p = p] : p \in Malloc(allocCache) \ {NULL}}
         \cup {[NoEnv EXCEPT !.p = p, !.seedsOk = TRUE] : p \in Malloc(allocCache) \ {NULL}}
         \cup {[p |-> p, seedsOk |-> TRUE, lockOk |-> TRUE, rnd |-> rnd] :
                  p \in Malloc(allocCache) \ {NULL},
                  rnd \in [0..(cache_size - 1) -> DrandSamples]}

PreloadEnvs(api_key, count) ==
    IF InvalidParams(api_key, count) \/ global_cache # NULL THEN {NoEnv}
    ELSE InitEnvs(count)

SetState(st) ==
    /\ global_cache' = st.global_cache
    /\ quantum_cache' = st.quantum_cache
    /\ allocCache' = st.allocCache
    /\ allocSeeds' = st.allocSeeds
    /\ rwlocks' = st.rwlocks
    /\ UNCHANGED threadVars

CallInit ==
    \E cache_size \in Sizes :
    \E env \in InitEnvs(cache_size) :
        LET r == quantum_cache_init(State, cache_size, env.p, env.seedsOk, env.lockOk, env.rnd)
        IN  /\ SetState(r.st)
            /\ last' = [NoCall EXCEPT !.op = "init", !.n = cache_size,
                                      !.ret = r.ret, !.events = r.events]
            /\ UNCHANGED now

CallDestroy ==
    LET r == quantum_cache_destroy(State)
    IN  /\ SetState(r.st)
        /\ last' = [NoCall EXCEPT !.op = "destroy", !.events = r.events]
        /\ UNCHANGED now

CallGetRandom ==
    \E index \in Indexes :
        LET r == quantum_cache_get_random(State, index)
        IN  /\ SetState(r.st)
            /\ last' = [NoCall EXCEPT !.op = "get_random", !.n = index,
                                      !.value = r.value, !.events = r.events]
            /\ UNCHANGED now

\* the number of clock readings a preload call takes
Readings(api_key, count, env) ==
    IF InvalidParams(api_key, count) THEN 0
    ELSE IF global_cache # NULL THEN Cardinality(Rewritten(count, quantum_cache.size))
    ELSE IF env.p = NULL \/ ~env.seedsOk \/ ~env.lockOk THEN 0
    ELSE count

\* CLOCK_MONOTONIC never goes back
ClockChoices(n) ==
    {ts \in [0..(n - 1) -> Clock] :
        \A i \in 0..(n - 1) : ts[i] >= (IF i = 0 THEN now ELSE ts[i - 1])}

CallPreload ==
    \E api_key \in Keys, count \in Sizes :
    \E env \in PreloadEnvs(api_key, count) :
    \E ts \in ClockChoices(Readings(api_key, count, env)) :
        LET r == quantum_cache_preload(State, api_key, count, env.p, env.seedsOk,
                                       env.lockOk, env.rnd, ts)
            n == Readings(api_key, count, env)
        IN  /\ SetState(r.st)
            /\ last' = [NoCall EXCEPT !.op = "preload", !.key = api_key, !.n = count,
                                      !.ret = r.ret, !.events = r.events]
            /\ now' = IF n = 0 THEN now ELSE ts[n - 1]

CallComputePhase ==
    \E circuit_id \in Ids, packet_hash \in Ids :
        LET r == compute_quantum_phase(State, circuit_id, packet_hash)
        IN  /\ SetState(r.st)
            /\ last' = [NoCall EXCEPT !.op = "phase", !.a = circuit_id, !.b = packet_hash,
                                      !.value = r.value, !.events = r.events]
            /\ UNCHANGED now

Next ==
    \/ CallInit
    \/ CallDestroy
    \/ CallGetRandom
    \/ CallPreload
    \/ CallComputePhase

Spec == Init /\ [][Next]_vars

(***************************************************************************)
(* The same functions called by threads: a step is one statement of one    *)
(* thread.  The structs are in heap and the seeds arrays in seedmem;       *)
(* allocSeeds holds the addresses of the arrays, quantum_cache and last    *)
(* are not used.  A statement is named by its line: "L105" is the test of  *)
(* global_cache of line 105 and "L105b" the test of the index.             *)
(***************************************************************************)
\* the state the threads share and their own, as one value
Machine ==
    [global_cache |-> global_cache, allocCache |-> allocCache,
     allocSeeds |-> allocSeeds, rwlocks |-> rwlocks, now |-> now,
     heap |-> heap, seedmem |-> seedmem, pc |-> pc, loc |-> loc]

\* what an evaluation of global_cache by thread t can give when other
\* threads assign it without synchronisation: the value the variable holds,
\* or the value the thread loaded from it earlier in the call
Loaded(M, t) ==
    {M.global_cache} \cup {M.loc[t].ptr[j] : j \in DOMAIN M.loc[t].ptr}

\* thread t goes on to the statement at label, having evaluated
\* global_cache to p
Goto(M, t, p, label) == [M EXCEPT !.pc[t] = label, !.loc[t].ptr = Val(p)]

\* thread t runs into undefined behaviour: nothing is known of it afterwards
Fault(M, t, kind) ==
    [M EXCEPT !.pc[t] = "fault",
              !.loc[t] = [NoLoc EXCEPT !.op = M.loc[t].op, !.fault = kind]]

\* the call of thread t returns
Return(M, t, ret, value) ==
    [M EXCEPT !.pc[t] = "done",
              !.loc[t] = [NoLoc EXCEPT !.op = M.loc[t].op, !.ret = ret,
                                       !.value = value]]

\* what is wrong with an access to a member of *p
BadStruct(M, p) ==
    IF p = NULL THEN "null pointer"
    ELSE IF p \notin M.allocCache THEN "use after free"
    ELSE "none"

\* what is wrong with an access to p->seeds[i]
BadSlot(M, p, i) ==
    LET s == M.heap[p].seeds
    IN  IF s = Indet THEN "indeterminate pointer"
        ELSE IF s[1] = NULL THEN "null pointer"
        ELSE IF s[1] \notin M.allocSeeds THEN "use after free"
        ELSE IF i \notin DOMAIN M.seedmem[s[1]] THEN "out of bounds"
        ELSE "none"

\* a statement of thread t that accesses a member of *global_cache: Body(p)
\* gives its outcomes for the struct at p
OnStruct(M, t, Body(_)) ==
    UNION { IF BadStruct(M, p) # "none" THEN {Fault(M, t, BadStruct(M, p))}
            ELSE Body(p) : p \in Loaded(M, t) }

\* the drand48() value and the clock reading the threads get
ThreadDrand == <<255, 255, 255, 255, 255, 255>>

\* a wrlock that does not wait for the readers
CanWrLock_IgnoresReaders(blk) == blk.writer = 0

\* a rdlock that waits for the other readers too, as a mutex would
CanRdLock_Exclusive(blk) == blk.writer = 0 /\ blk.readers = {}

\* pthread_rwlock_rdlock returns when no thread holds the lock for writing
CanRdLock(blk) == blk.writer = 0

\* pthread_rwlock_wrlock returns when no thread holds the lock at all
CanWrLock(blk) == blk.writer = 0 /\ blk.readers = {}

\* a destroy that waits until no thread holds the lock
CanDestroy_WhenFree(blk) == blk.writer = 0 /\ blk.readers = {}

\* pthread_rwlock_destroy returns at once, whoever holds the lock
CanDestroy(blk) == TRUE

\* an unlock that releases a read lock only
Unlock_ReadOnly(blk, t) == [blk EXCEPT !.readers = @ \ {t}]

\* pthread_rwlock_unlock by thread t, which holds the lock
Unlock(blk, t) ==
    [blk EXCEPT !.readers = @ \ {t}, !.writer = IF @ = t THEN 0 ELSE @]

\* a value that depends on an indeterminate seed
IndetValue == [unit |-> "indeterminate", num |-> ZeroNum]
NoValue == NoLoc.value

\* random_value * 2.0 * M_PI
Scale(v) == IF v = IndetValue THEN v ELSE TimesTwoPi(v)

\* quantum_cache_get_random returns v: to its caller, or to
\* compute_quantum_phase, which returns the scaled value (line 192)
LookupReturns(M, t, v) ==
    Return(M, t, 0, IF M.loc[t].op = "phase" THEN Scale(v) ELSE v)

quantum_cache_get_random_stmt(M, t) ==
    LET l == M.loc[t]
    IN  CASE M.pc[t] = "L105" ->
               { IF p = NULL THEN LookupReturns(M, t, Half)
                 ELSE Goto(M, t, p, "L105b") : p \in Loaded(M, t) }
          [] M.pc[t] = "L105b" ->
               OnStruct(M, t, LAMBDA p :
                   LET size == M.heap[p].size
                   IN  IF size = Indet
                       THEN {LookupReturns(M, t, Half), Goto(M, t, p, "L109")}
                       ELSE IF l.n >= size[1] THEN {LookupReturns(M, t, Half)}
                       ELSE {Goto(M, t, p, "L109")})
          [] M.pc[t] = "L109" ->
               OnStruct(M, t, LAMBDA p :
                   IF p \notin M.rwlocks THEN {Fault(M, t, "lock not initialised")}
                   ELSE IF CanRdLock(M.heap[p])
                   THEN {Goto([M EXCEPT !.heap[p].readers = @ \cup {t}], t, p, "L110")}
                   ELSE {})
          [] M.pc[t] = "L110" ->
               OnStruct(M, t, LAMBDA p :
                   IF BadSlot(M, p, l.n) # "none" THEN {Fault(M, t, BadSlot(M, p, l.n))}
                   ELSE {[Goto(M, t, p, "L111") EXCEPT
                             !.loc[t].seed = M.seedmem[M.heap[p].seeds[1]][l.n]]})
          [] M.pc[t] = "L111" ->
               OnStruct(M, t, LAMBDA p :
                   IF p \notin M.rwlocks THEN {Fault(M, t, "lock not initialised")}
                   ELSE IF t \notin M.heap[p].readers THEN {Fault(M, t, "lock not held")}
                   ELSE {LookupReturns([M EXCEPT !.heap[p] = Unlock(@, t)], t,
                                       IF l.seed = Indet THEN IndetValue
                                       ELSE SeedValueOf(l.seed[1]))})
          [] OTHER -> {}

compute_quantum_phase_stmt(M, t) ==
    LET l == M.loc[t]
    IN  CASE M.pc[t] = "L179" ->
               { IF p = NULL THEN Return(M, t, 0, M_PI)
                 ELSE Goto(M, t, p, "L188") : p \in Loaded(M, t) }
          [] M.pc[t] = "L188" ->
               OnStruct(M, t, LAMBDA p :
                   LET size == M.heap[p].size
                   IN  IF size = Indet THEN {Fault(M, t, "indeterminate divisor")}
                       ELSE {[Goto(M, t, p, "L105") EXCEPT
                                 !.loc[t].n = PhaseIndex(l.a, l.b, size[1])]})
          [] OTHER -> {}

\* free(global_cache->seeds), then on to the statement at label
FreeSeeds(M, t, label) ==
    OnStruct(M, t, LAMBDA p :
        LET s == M.heap[p].seeds
        IN  IF s = Indet THEN {Fault(M, t, "indeterminate pointer")}
            ELSE IF s[1] = NULL THEN {Goto(M, t, p, label)}
            ELSE IF s[1] \notin M.allocSeeds THEN {Fault(M, t, "double free")}
            ELSE {[Goto(M, t, p, label) EXCEPT !.allocSeeds = @ \ {s[1]},
                                               !.seedmem[s[1]] = <<>>]})

\* free(global_cache), then on to the statement at label
FreeStruct(M, t, label) ==
    UNION { IF p = NULL THEN {Goto(M, t, p, label)}
            ELSE IF p \notin M.allocCache THEN {Fault(M, t, "double free")}
            ELSE {[Goto(M, t, p, label) EXCEPT !.allocCache = @ \ {p},
                                               !.rwlocks = @ \ {p},
                                               !.heap[p] = JunkBlock]}
            : p \in Loaded(M, t) }

\* quantum_cache_init returns ret: to its caller, or to
\* quantum_cache_preload, which returns it when it is not 0 (line 130)
InitReturns(M, t, ret) ==
    IF M.loc[t].op = "preload" /\ ret = 0
    THEN [M EXCEPT !.pc[t] = "L138", !.loc[t].i = 0]
    ELSE Return(M, t, ret, NoValue)

quantum_cache_init_stmt(M, t) ==
    LET l == M.loc[t]
    IN  CASE M.pc[t] = "L49" ->
               {IF InvalidSize(l.n) THEN InitReturns(M, t, -1)
                ELSE [M EXCEPT !.pc[t] = "L53"]}
          [] M.pc[t] = "L53" ->
               { IF p = NULL THEN [Goto(M, t, p, "L54") EXCEPT !.global_cache = NULL]
                 ELSE [Goto(M, t, p, "L54") EXCEPT !.global_cache = p,
                                                   !.allocCache = @ \cup {p},
                                                   !.heap[p] = JunkBlock]
                 : p \in Malloc(M.allocCache) }
          [] M.pc[t] = "L54" ->
               { IF p = NULL THEN InitReturns(M, t, -2)
                 ELSE Goto(M, t, p, "L58") : p \in Loaded(M, t) }
          [] M.pc[t] = "L58" ->
               OnStruct(M, t, LAMBDA p :
                   { IF s = NULL THEN [Goto(M, t, p, "L59") EXCEPT !.heap[p].seeds = Val(NULL)]
                     ELSE [Goto(M, t, p, "L59") EXCEPT
                              !.heap[p].seeds = Val(s),
                              !.allocSeeds = @ \cup {s},
                              !.seedmem[s] = [i \in 0..(l.n - 1) |-> Indet]]
                     : s \in Malloc(M.allocSeeds) })
          [] M.pc[t] = "L59" ->
               OnStruct(M, t, LAMBDA p :
                   LET s == M.heap[p].seeds
                   IN  IF s = Indet THEN {Goto(M, t, p, "L60"), Goto(M, t, p, "L65")}
                       ELSE IF s[1] = NULL THEN {Goto(M, t, p, "L60")}
                       ELSE {Goto(M, t, p, "L65")})
          [] M.pc[t] = "L60" -> FreeStruct(M, t, "L61")
          [] M.pc[t] = "L61" -> {InitReturns([M EXCEPT !.global_cache = NULL], t, -2)}
          [] M.pc[t] = "L65" ->
               OnStruct(M, t, LAMBDA p :
                   {[Goto(M, t, p, "L68") EXCEPT !.heap[p].size = Val(l.n),
                                                 !.heap[p].index = Val(0)]})
          [] M.pc[t] = "L68" ->
               OnStruct(M, t, LAMBDA p :
                   IF p \in M.rwlocks THEN {Fault(M, t, "lock initialised twice")}
                   ELSE {Goto(M, t, p, "L69"),
                         [Goto(M, t, p, "L76") EXCEPT !.rwlocks = @ \cup {p},
                                                      !.heap[p].readers = {},
                                                      !.heap[p].writer = 0,
                                                      !.loc[t].i = 0]})
          [] M.pc[t] = "L69" -> FreeSeeds(M, t, "L70")
          [] M.pc[t] = "L70" -> FreeStruct(M, t, "L71")
          [] M.pc[t] = "L71" -> {InitReturns([M EXCEPT !.global_cache = NULL], t, -3)}
          [] M.pc[t] = "L76" ->
               IF l.i >= l.n THEN {InitReturns(M, t, 0)}
               ELSE OnStruct(M, t, LAMBDA p :
                   IF BadSlot(M, p, l.i) # "none" THEN {Fault(M, t, BadSlot(M, p, l.i))}
                   ELSE {[Goto(M, t, p, "L76") EXCEPT
                             !.seedmem[M.heap[p].seeds[1]][l.i] = Val(DrandSeed(ThreadDrand)),
                             !.loc[t].i = l.i + 1]})
          [] OTHER -> {}

quantum_cache_destroy_stmt(M, t) ==
    CASE M.pc[t] = "L88" ->
           { IF p = NULL THEN Return(M, t, 0, NoValue)
             ELSE Goto(M, t, p, "L92") : p \in Loaded(M, t) }
      [] M.pc[t] = "L92" ->
           OnStruct(M, t, LAMBDA p :
               IF p \notin M.rwlocks THEN {Fault(M, t, "lock not initialised")}
               ELSE IF CanDestroy(M.heap[p])
               THEN {[Goto(M, t, p, "L93") EXCEPT !.rwlocks = @ \ {p}]}
               ELSE {})
      [] M.pc[t] = "L93" -> FreeSeeds(M, t, "L94")
      [] M.pc[t] = "L94" -> FreeStruct(M, t, "L95")
      [] M.pc[t] = "L95" -> {Return([M EXCEPT !.global_cache = NULL], t, 0, NoValue)}
      [] OTHER -> {}

quantum_cache_preload_stmt(M, t) ==
    LET l == M.loc[t]
    IN  CASE M.pc[t] = "L124" ->
               {IF InvalidParams(l.key, l.n) THEN Return(M, t, -1, NoValue)
                ELSE [M EXCEPT !.pc[t] = "L128"]}
          [] M.pc[t] = "L128" ->
               { IF p = NULL THEN Goto(M, t, p, "L49")
                 ELSE Goto(M, t, p, "L138") : p \in Loaded(M, t) }
          [] M.pc[t] = "L138" ->
               OnStruct(M, t, LAMBDA p :
                   IF p \notin M.rwlocks THEN {Fault(M, t, "lock not initialised")}
                   ELSE IF CanWrLock(M.heap[p])
                   THEN {[Goto(M, t, p, "L148") EXCEPT !.heap[p].writer = t,
                                                       !.loc[t].i = 0]}
                   ELSE {})
          [] M.pc[t] = "L148" ->
               IF l.i >= l.n THEN {[M EXCEPT !.pc[t] = "L166"]}
               ELSE OnStruct(M, t, LAMBDA p :
                   LET size == M.heap[p].size
                       exit == {Goto(M, t, p, "L166")}
                       body ==
                           IF BadSlot(M, p, l.i) # "none"
                           THEN {Fault(M, t, BadSlot(M, p, l.i))}
                           ELSE {[Goto(M, t, p, "L148") EXCEPT
                                     !.seedmem[M.heap[p].seeds[1]][l.i] =
                                         Val(MixedSeed(l.key, c, l.i)),
                                     !.now = c,
                                     !.loc[t].i = l.i + 1]
                                    : c \in M.now..Len(ClockSamples)}
                   IN  IF size = Indet THEN exit \cup body
                       ELSE IF l.i >= size[1] THEN exit
                       ELSE body)
          [] M.pc[t] = "L166" ->
               OnStruct(M, t, LAMBDA p :
                   IF p \notin M.rwlocks THEN {Fault(M, t, "lock not initialised")}
                   ELSE IF M.heap[p].writer # t THEN {Fault(M, t, "lock not held")}
                   ELSE {Return([M EXCEPT !.heap[p] = Unlock(@, t)], t, 0, NoValue)})
          [] OTHER -> {}

SetMachine(M) ==
    /\ global_cache' = M.global_cache
    /\ allocCache' = M.allocCache
    /\ allocSeeds' = M.allocSeeds
    /\ rwlocks' = M.rwlocks
    /\ now' = M.now
    /\ heap' = M.heap
    /\ seedmem' = M.seedmem
    /\ pc' = M.pc
    /\ loc' = M.loc
    /\ UNCHANGED <<quantum_cache, last>>

\* thread t calls a function: its first statement is the next one
Call(t, label, args) ==
    /\ pc[t] = "idle"
    /\ SetMachine([Machine EXCEPT !.pc[t] = label, !.loc[t] = args])

\* the keys, and the circuit_id of the pairs (circuit_id, 1), threads call with
ThreadKeys == {NULL_KEY, Key8}

BeginInit(t) ==
    \E cache_size \in 0..MaxCap :
        Call(t, "L49", [NoLoc EXCEPT !.op = "init", !.n = cache_size])

BeginDestroy(t) == Call(t, "L88", [NoLoc EXCEPT !.op = "destroy"])

BeginGetRandom(t) ==
    \E index \in 0..MaxCap :
        Call(t, "L105", [NoLoc EXCEPT !.op = "get_random", !.n = index])

BeginPreload(t) ==
    \E api_key \in ThreadKeys, count \in 1..MaxCap :
        Call(t, "L124", [NoLoc EXCEPT !.op = "preload", !.key = api_key, !.n = count])

BeginComputePhase(t) ==
    \E circuit_id \in Ids :
        Call(t, "L179", [NoLoc EXCEPT !.op = "phase", !.a = circuit_id, !.b = U64(1)])

StmtInit(t) == \E N \in quantum_cache_init_stmt(Machine, t) : SetMachine(N)
StmtDestroy(t) == \E N \in quantum_cache_destroy_stmt(Machine, t) : SetMachine(N)
StmtGetRandom(t) == \E N \in quantum_cache_get_random_stmt(Machine, t) : SetMachine(N)
StmtPreload(t) == \E N \in quantum_cache_preload_stmt(Machine, t) : SetMachine(N)
StmtComputePhase(t) == \E N \in compute_quantum_phase_stmt(Machine, t) : SetMachine(N)

\* a cache is present: quantum_cache_init(cache_size) has returned 0 with
\* the struct and the array at address 1, before any thread calls
CachePresent ==
    \E cache_size \in 1..MaxCap :
        /\ global_cache = 1
        /\ allocCache = {1}
        /\ allocSeeds = {1}
        /\ rwlocks = {1}
        /\ heap = [a \in Addrs |->
                      IF a = 1 THEN [seeds |-> Val(1), size |-> Val(cache_size),
                                     index |-> Val(0), readers |-> {}, writer |-> 0]
                      ELSE JunkBlock]
        /\ seedmem = [a \in Addrs |->
                         IF a = 1 THEN [i \in 0..(cache_size - 1) |-> Val(DrandSeed(ThreadDrand))]
                         ELSE <<>>]
        /\ pc = [t \in Threads |-> "idle"]
        /\ loc = [t \in Threads |-> NoLoc]
        /\ quantum_cache = NoCache
        /\ now = 1
        /\ last = NoCall

\* threads look up and populate a present cache; each thread makes one call
InitLookups == CachePresent

LookupsThread(t) ==
    \/ BeginGetRandom(t)
    \/ BeginComputePhase(t)
    \/ BeginPreload(t)
    \/ StmtGetRandom(t)
    \/ StmtComputePhase(t)
    \/ StmtPreload(t)

NextLookups == \E t \in Threads : LookupsThread(t)

SpecLookups == InitLookups /\ [][NextLookups]_vars

\* the scheduler lets every thread that can take a step take one
FairLookups == SpecLookups /\ \A t \in Threads : WF_vars(LookupsThread(t))

\* threads look up and destroy a present cache; each thread makes one call
InitTeardown == CachePresent

TeardownThread(t) ==
    \/ BeginDestroy(t)
    \/ BeginGetRandom(t)
    \/ BeginComputePhase(t)
    \/ StmtDestroy(t)
    \/ StmtGetRandom(t)
    \/ StmtComputePhase(t)

NextTeardown == \E t \in Threads : TeardownThread(t)

SpecTeardown == InitTeardown /\ [][NextTeardown]_vars

\* threads call all five functions, on an absent or a present cache; each
\* thread makes one call
\* no cache is present before any thread calls
CacheAbsent ==
    /\ global_cache = NULL
    /\ allocCache = {}
    /\ allocSeeds = {}
    /\ rwlocks = {}
    /\ heap = [a \in Addrs |-> JunkBlock]
    /\ seedmem = [a \in Addrs |-> <<>>]
    /\ pc = [t \in Threads |-> "idle"]
    /\ loc = [t \in Threads |-> NoLoc]
    /\ quantum_cache = NoCache
    /\ now = 1
    /\ last = NoCall

InitThreads == CacheAbsent \/ CachePresent

ThreadNext(t) ==
    \/ BeginInit(t)
    \/ BeginDestroy(t)
    \/ BeginGetRandom(t)
    \/ BeginPreload(t)
    \/ BeginComputePhase(t)
    \/ StmtInit(t)
    \/ StmtDestroy(t)
    \/ StmtGetRandom(t)
    \/ StmtPreload(t)
    \/ StmtComputePhase(t)

NextThreads == \E t \in Threads : ThreadNext(t)

SpecThreads == InitThreads /\ [][NextThreads]_vars

(***************************************************************************)
(* Properties.  A step of the specification is one call; last' names the   *)
(* call, the unprimed variables its state before and the primed ones its   *)
(* state after.                                                            *)
(***************************************************************************)
Present == global_cache # NULL

\* C1: populate(key, count) with an empty (or missing) key, or with
\* count = 0 or count > 10_000_000, returns the invalid-argument result and
\* changes nothing: presence, capacity, seeds and allocations are as before.
C1_PopulateRejectsBadArguments ==
    [][ (/\ last'.op = "preload"
         /\ \/ last'.key.isNull
            \/ last'.key.str = <<>>
            \/ last'.n = 0
            \/ last'.n > MAX_CACHE_SIZE)
        => (last'.ret = -1 /\ UNCHANGED progState) ]_vars

\* C2: at any time at most one SeedCache instance is allocated and not yet
\* released, and it is the one the singleton refers to (no instance is
\* allocated and unreachable).
C2_AtMostOneInstance ==
    /\ Cardinality(allocCache) <= 1
    /\ allocCache \subseteq {global_cache}
    /\ allocSeeds \subseteq {global_cache}
    /\ rwlocks \subseteq {global_cache}

\* C3: create(capacity) with capacity = 0 or capacity > 10_000_000 returns
\* the invalid-size result and leaves the global state unchanged.
C3_CreateRejectsInvalidSize ==
    [][ (last'.op = "init" /\ (last'.n = 0 \/ last'.n > MAX_CACHE_SIZE))
        => (last'.ret = -1 /\ last'.events = <<>> /\ UNCHANGED progState) ]_vars

\* a create call with an invalid size has returned and a cache is present
C3_Witness ==
    /\ last.op = "init"
    /\ last.n > MAX_CACHE_SIZE
    /\ last.ret = -1
    /\ Present
    /\ quantum_cache.size >= 1

\* C4: when create fails because an allocation or the guard initialisation
\* fails, the singleton reference is the same after the call as before it.
C4_FailedCreateKeepsSingleton ==
    [][ (last'.op = "init" /\ last'.ret \in {-2, -3})
        => global_cache' = global_cache ]_vars

\* C5: getRandom(index) returns exactly 0.5, without acquiring the guard,
\* when the cache is absent and when it is present and index >= capacity.
C5_LookupFallback ==
    [][ (/\ last'.op = "get_random"
         /\ (global_cache = NULL \/ last'.n >= quantum_cache.size))
        => (/\ last'.value = Half
            /\ last'.events = <<>>
            /\ UNCHANGED progState) ]_vars

\* getRandom has returned for an index at or beyond the capacity of a
\* present cache
C5_Witness ==
    /\ last.op = "get_random"
    /\ Present
    /\ last.n >= quantum_cache.size
    /\ last.value = Half

\* a uint64_t as a numerator on 9 limbs
Ext9(x) == Append(x, 0)
\* 2^64 - 1024, the least uint64_t whose nearest double is 2^64
RoundsToOne == <<0, 252, 255, 255, 255, 255, 255, 255>>
\* the low 11 bits of x are zero, so x has at most 53 significant bits
LowBitsZero(x) == L(x, 0) = 0 /\ L(x, 1) % 8 = 0

InRangeLookup == last'.op = "get_random" /\ Present /\ last'.n < quantum_cache.size

C7_PhaseFallback ==
    [][ (last'.op = "phase" /\ global_cache = NULL)
        => (/\ last'.value = M_PI
            /\ last'.events = <<>>
            /\ UNCHANGED progState) ]_vars

\* computePhase has returned pi with no cache present
C7_Witness ==
    /\ last.op = "phase"
    /\ ~Present
    /\ last.a # last.b
    /\ last.value = M_PI

\* swap of the high and low 32-bit halves
Rot32(x) == <<x[5], x[6], x[7], x[8], x[1], x[2], x[3], x[4]>>

\* C8: for a present cache computePhase reads the slot
\* rot32(circuitId XOR packetHash) mod capacity and leaves the cache
\* unmodified, so a repeated call with the same pair returns the identical
\* value, and computePhase(a, b) = computePhase(b, a).
C8_PhaseIndex ==
    [][ (last'.op = "phase" /\ Present)
        => \A x \in {Xor64(last'.a, last'.b)} :
           \A r \in {Rot32(x)} :
           \A idx \in {Mod64(r, quantum_cache.size)} :
               /\ idx < quantum_cache.size
               /\ last'.value = TimesTwoPi(SeedValueOf(quantum_cache.seeds[idx]))
               /\ UNCHANGED progState
               /\ last'.value = compute_quantum_phase(State, last'.b, last'.a).value ]_vars

\* computePhase has returned for a pair whose rotation changes the slot, on
\* a cache whose two slots hold different seeds
C8_Witness ==
    /\ last.op = "phase"
    /\ Present
    /\ quantum_cache.size = 2
    /\ quantum_cache.seeds[0] # quantum_cache.seeds[1]
    /\ \E x \in {Xor64(last.a, last.b)} :
       \E r \in {Rot32(x)} :
       \E idx \in {Mod64(r, 2)} :
           /\ Mod64(x, 2) # idx
           /\ last.value = TimesTwoPi(SeedValueOf(quantum_cache.seeds[idx]))

\* C9: whenever the cache is present, 1 <= capacity <= 10_000_000 and the
\* seed store has exactly capacity slots; a successful creation sets the
\* capacity to the value given, and no call changes the capacity of the
\* instance it finds.
C9_CapacityFixed ==
    [][ /\ Present' => /\ quantum_cache'.size >= 1
                       /\ quantum_cache'.size <= MAX_CACHE_SIZE
                       /\ DOMAIN quantum_cache'.seeds = 0..(quantum_cache'.size - 1)
        /\ (last'.op = "init" /\ last'.ret = 0) => quantum_cache'.size = last'.n
        /\ (last'.op = "preload" /\ last'.ret = 0 /\ ~Present) => quantum_cache'.size = last'.n
        /\ (Present /\ last'.op \in {"preload", "get_random", "phase"})
               => (global_cache' = global_cache /\ quantum_cache'.size = quantum_cache.size)
      ]_vars

\* populate has rewritten fewer entries than the capacity of a present cache
C9_Witness ==
    /\ last.op = "preload"
    /\ last.ret = 0
    /\ last.events = <<"wrlock", "unlock">>
    /\ Present
    /\ last.n < quantum_cache.size

\* C10: destroy on a present cache releases the guard and the seed store
\* and makes the cache absent, so that a following getRandom returns 0.5
\* and a following computePhase returns pi; destroy on an absent cache
\* changes nothing.
C10_Destroy ==
    [][ /\ (last'.op = "destroy" /\ Present)
            => /\ global_cache' = NULL
               /\ allocCache' = allocCache \ {global_cache}
               /\ allocSeeds' = allocSeeds \ {global_cache}
               /\ rwlocks' = rwlocks \ {global_cache}
        /\ (last'.op = "destroy" /\ ~Present) => UNCHANGED progState
        /\ (last.op = "destroy" /\ last'.op = "get_random") => last'.value = Half
        /\ (last.op = "destroy" /\ last'.op = "phase") => last'.value = M_PI
      ]_vars

\* destroy has returned after releasing a present cache
C10_Witness ==
    /\ last.op = "destroy"
    /\ last.events = <<"rwlock_destroy", "free", "free">>
    /\ ~Present
    /\ allocSeeds = allocCache

\* a key populate accepts according to its contract: present and not empty
ValidKey(k) == ~k.isNull /\ k.str # <<>>
ValidCount(n) == n >= 1 /\ n <= MAX_CACHE_SIZE

\* the values populate can store in slot i for the key, over the clock
\* readings between two positions of the clock
MixedValues(k, i, from, to) == {MixedSeed(k, c, i) : c \in from..to}

\* C13: populate with a valid key and 1 <= count <= 10_000_000 on an absent
\* cache, when the allocations and the guard initialisation succeed, returns
\* success and leaves a present cache of capacity exactly count in which
\* every one of the count slots holds a mixed value.
C13_PopulateCreates ==
    [][ (/\ last'.op = "preload"
         /\ ~Present
         /\ ValidKey(last'.key)
         /\ ValidCount(last'.n))
        => /\ last'.ret \in {0, -2, -3}
           /\ (last'.ret = 0) <=>
                  (last'.events = <<"malloc", "malloc", "rwlock_init", "wrlock", "unlock">>)
           /\ (last'.ret = 0) =>
                  /\ Present'
                  /\ global_cache' \in allocCache' \cap allocSeeds' \cap rwlocks'
                  /\ quantum_cache'.size = last'.n
                  /\ DOMAIN quantum_cache'.seeds = 0..(last'.n - 1)
                  /\ \A i \in 0..(last'.n - 1) :
                         quantum_cache'.seeds[i] \in MixedValues(last'.key, i, now, now') ]_vars

\* populate has created a cache of two slots and returned success
C13_Witness ==
    /\ last.op = "preload"
    /\ last.key = Key8
    /\ last.n = 2
    /\ last.ret = 0
    /\ last.events = <<"malloc", "malloc", "rwlock_init", "wrlock", "unlock">>
    /\ Present
    /\ quantum_cache.size = 2

\* C14: populate with valid arguments on a present cache returns success,
\* also when count exceeds the capacity; it rewrites exactly the slots
\* [0, min(count, capacity)) and leaves every other slot, the capacity, the
\* cursor, the singleton and the allocations unchanged.
C14_PopulateFrame ==
    [][ (/\ last'.op = "preload"
         /\ Present
         /\ ValidKey(last'.key)
         /\ ValidCount(last'.n))
        => /\ last'.ret = 0
           /\ last'.events = <<"wrlock", "unlock">>
           /\ global_cache' = global_cache
           /\ quantum_cache'.size = quantum_cache.size
           /\ quantum_cache'.index = quantum_cache.index
           /\ UNCHANGED <<allocCache, allocSeeds, rwlocks>>
           /\ DOMAIN quantum_cache'.seeds = DOMAIN quantum_cache.seeds
           /\ \A i \in DOMAIN quantum_cache.seeds :
                  IF i < last'.n /\ i < quantum_cache.size
                  THEN quantum_cache'.seeds[i] \in MixedValues(last'.key, i, now, now')
                  ELSE quantum_cache'.seeds[i] = quantum_cache.seeds[i] ]_vars

\* populate has returned success for a count below the capacity, leaving
\* the last slot as create filled it
C14_Witness ==
    /\ last.op = "preload"
    /\ last.key = Key8
    /\ last.n = 1
    /\ last.ret = 0
    /\ Present
    /\ quantum_cache.size = 2
    /\ quantum_cache.seeds[0] \in MixedValues(Key8, 0, 1, now)
    /\ quantum_cache.seeds[1] \in {DrandSeed(k) : k \in DrandSamples}

\* populate has returned success for a count above the capacity
C14_WitnessAbove ==
    /\ last.op = "preload"
    /\ last.n = 2
    /\ last.ret = 0
    /\ last.events = <<"wrlock", "unlock">>
    /\ quantum_cache.size = 1

\* C15: getRandom and computePhase change nothing: presence, capacity,
\* cursor, seeds and allocations are the same after the call, and every
\* acquisition of the guard is a shared one released before the return;
\* computePhase makes at most one, through getRandom.
C15_LookupsPure ==
    [][ /\ (last'.op = "get_random")
            => /\ UNCHANGED progState
               /\ last'.events \in {<<>>, <<"rdlock", "unlock">>}
        /\ (last'.op = "phase")
            => /\ UNCHANGED progState
               /\ last'.events \in {<<>>, <<"mod">>, <<"mod", "rdlock", "unlock">>}
      ]_vars

\* computePhase has returned after one shared acquisition, on a cache
\* populate wrote
C15_Witness ==
    /\ last.op = "phase"
    /\ last.events = <<"mod", "rdlock", "unlock">>
    /\ Present
    /\ quantum_cache.seeds[0] \in MixedValues(Key8, 0, 1, now)

\* the last 8 bytes of the key (all of them for a shorter key), as the
\* number they spell with the first byte the most significant
KeyTail(str) ==
    LET n == Len(str)
    IN  Tup8(LAMBDA j : IF j < n /\ j < 8 THEN str[n - j] ELSE 0)

\* E3 of the claim for K, the clock reading and the index, in arithmetic
\* modulo 2^64
ClaimedSeed(K, ts, i) ==
    LET E0 == Xor64(U64(ts.tv_nsec), Xor64(U64(ts.tv_sec), Xor64(U64(i), K)))
        E1 == Add64(Mul64(E0, U64(1103515245)), U64(12345))
        E2 == Xor64(E1, Shr64(E1, 32))
    IN  Add64(Mul64(E2, U64(1664525)), U64(1013904223))

\* ClaimedSeed for every key, clock reading and index of the model
ClaimedTable ==
    {<<k, c, i, ClaimedSeed(KeyTail(k.str), ClockSamples[c], i)>> :
        k \in Keys \ {NULL_KEY}, c \in Clock, i \in 0..MaxCap}

\* C20: every seed a successful populate stores in slot i is E3, where K
\* is the key folded byte by byte (K = (K << 8) OR byte mod 2^64, so that
\* only the last 8 bytes of a longer key count), E0 = nsec XOR sec XOR i XOR K
\* for the clock reading of the iteration, E1 = E0 * 1103515245 + 12345,
\* E2 = E1 XOR (E1 >> 32) and E3 = E2 * 1664525 + 1013904223, all modulo 2^64.
C20_StoredSeed ==
    [][ (last'.op = "preload" /\ last'.ret = 0)
        => \A i \in DOMAIN quantum_cache'.seeds :
              i < last'.n =>
                 \E t \in ClaimedTable :
                    /\ t[1] = last'.key
                    /\ t[2] \in now..now'
                    /\ t[3] = i
                    /\ t[4] = quantum_cache'.seeds[i] ]_vars

\* populate has stored seeds for the 9-byte key, the same as the 8-byte key
\* made of its last 8 bytes would give
C20_Witness ==
    /\ last.op = "preload"
    /\ last.key = Key9
    /\ last.ret = 0
    /\ Present
    /\ quantum_cache.size = 2
    /\ last.n = 2
    /\ quantum_cache.seeds[1] \in MixedValues(Key8, 1, 1, now)
    /\ quantum_cache.seeds[1] \notin MixedValues(EmptyKey, 1, 1, now)

(***************************************************************************)
(* Properties of the specifications with threads.                          *)
(***************************************************************************)
\* the threads between the return of the wrlock and the unlock of populate
InWritePass == {t \in Threads : pc[t] \in {"L148", "L166"}}
\* the threads between the return of the rdlock and the unlock of a lookup
InReadPass == {t \in Threads : pc[t] \in {"L110", "L111"}}
\* the threads in populate that are acquiring the guard or hold it
AtWriteLock == {t \in Threads : pc[t] \in {"L138", "L148", "L166"}}

\* C11: on a present cache with populate and lookups running together, a
\* populate holds the guard exclusively during its write pass: no lookup
\* holds the guard shared or reads a seed while a populate is between its
\* first and last write, and two populates are never in their write passes
\* at the same time.
C11_ExclusiveWritePass ==
    /\ Cardinality(InWritePass) <= 1
    /\ \A t \in InWritePass :
           /\ heap[global_cache].writer = t
           /\ heap[global_cache].readers = {}
           /\ InReadPass = {}
    /\ \A t \in InReadPass :
           /\ t \in heap[global_cache].readers
           /\ heap[global_cache].writer = 0

\* a populate has written its first slot and not its last, while the other
\* thread is waiting for the guard
C11_Witness ==
    \E t \in Threads, u \in Threads :
        /\ pc[t] = "L148"
        /\ loc[t].i = 1
        /\ loc[t].n = 2
        /\ heap[global_cache].size = Val(2)
        /\ pc[u] \in {"L109", "L138"}

\* C12: lookups do not exclude each other: a getRandom at the guard waits
\* only while a populate holds the guard or is acquiring it, never because
\* of other lookups alone (so that two lookups can hold the guard shared at
\* the same time).
C12_LookupsShare ==
    \A t \in Threads :
        (pc[t] = "L109" /\ AtWriteLock = {}) => ENABLED StmtGetRandom(t)

\* two lookups hold the guard shared at the same time
C12_Witness ==
    /\ Cardinality(InReadPass) >= 2
    /\ Cardinality(heap[global_cache].readers) >= 2
    /\ \E t \in InReadPass : loc[t].op = "get_random"

\* the threads that have called a lookup
Lookups == {t \in Threads : loc[t].op \in {"get_random", "phase"}}
\* the threads in quantum_cache_destroy
InDestroy == {u \in Threads : pc[u] \in {"L88", "L92", "L93", "L94", "L95"}}
\* the struct thread t found when it tested global_cache is released
HoldsReleased(t) == loc[t].ptr # Indet /\ loc[t].ptr \notin {Val(p) : p \in allocCache \cup {NULL}}

\* C16: nothing protects a lookup against a concurrent destroy: destroy
\* never waits for the lookups in progress, whatever they hold (so that a
\* lookup that has passed its presence and bounds check on the live
\* instance can go on to acquire the guard or read a seed of an instance
\* destroy has released meanwhile).
C16_DestroyNeverWaits ==
    \A u \in InDestroy : ENABLED StmtDestroy(u)

\* a lookup has passed its check and acquired the guard on the live
\* instance, and is about to read the seed of the instance that a destroy
\* call, which has returned, released meanwhile
C16_Witness ==
    \E t \in Lookups, u \in Threads :
        /\ pc[t] = "L110"
        /\ HoldsReleased(t)
        /\ loc[u].op = "destroy"
        /\ pc[u] = "done"
        /\ global_cache = NULL

\* the lookup has made that access
C16_WitnessAccess ==
    \E t \in Lookups, u \in Threads :
        /\ pc[t] = "fault"
        /\ loc[t].fault = "use after free"
        /\ loc[u].op = "destroy"
        /\ pc[u] = "done"

\* C17: threads that call populate at the same time on an absent cache
\* serialize: one instance is created and none is leaked, the guard is
\* initialised once, and every write pass holds the guard of that instance
\* exclusively.
C17_PopulatesSerialize ==
    (\A t \in Threads : loc[t].op \in {"none", "preload"})
    => /\ Cardinality(allocCache) <= 1
       /\ allocCache \subseteq {global_cache}
       /\ \A t \in Threads : pc[t] # "fault"
       /\ \A t \in InWritePass :
              /\ global_cache \in rwlocks
              /\ heap[global_cache].writer = t

\* the threads in quantum_cache_init after the assignment of global_cache
\* and before the end of the fill loop
InCreate == {u \in Threads : pc[u] \in {"L54", "L58", "L59", "L65", "L68", "L76"}}

\* the struct at p has its array, its size, its lock and every seed
FullyBuilt(p) ==
    /\ p \in rwlocks
    /\ heap[p].size # Indet
    /\ heap[p].seeds # Indet
    /\ heap[p].seeds[1] \in allocSeeds
    /\ \A i \in DOMAIN seedmem[heap[p].seeds[1]] : seedmem[heap[p].seeds[1]][i] # Indet

\* the threads that found global_cache set in a lookup or in populate
SawPresent ==
    {t \in Threads \ InCreate :
        /\ pc[t] \in {"L105b", "L109", "L110", "L111", "L188", "L138", "L148", "L166"}
        /\ loc[t].ptr # Indet
        /\ loc[t].ptr[1] \in allocCache}

\* C18: while a create is in progress (no destroy running), a thread in a
\* lookup or in populate that has found the cache present has found it
\* fully initialised: capacity set, guard initialised, every seed written.
C18_AbsentOrBuilt ==
    (InCreate # {} /\ \A u \in Threads : loc[u].op # "destroy")
    => \A t \in SawPresent : FullyBuilt(loc[t].ptr[1])

AllReturned == \A t \in Threads : pc[t] = "done"
GuardFree == heap[global_cache].readers = {} /\ heap[global_cache].writer = 0

\* C19: on a present cache with lookups and populates running together
\* (no create, no destroy), under fair scheduling every call returns,
\* having released the guard it acquired: no deadlock is reachable, and
\* the guard is free once no call is in progress.
C19_CallsReturn == <>[](AllReturned /\ GuardFree)

\* every call has returned, among them a populate that wrote and a lookup
\* that read a seed, and the guard is free
C19_Witness ==
    /\ AllReturned
    /\ GuardFree
    /\ \E t \in Threads, u \in Threads :
           /\ loc[t].op = "preload"
           /\ loc[t].ret = 0
           /\ loc[u].op = "get_random"
           /\ loc[u].value \notin {Half, NoValue}

====
